---------------------------- MODULE Spec2Model ----------------------------
(***************************************************************************)
(* Model of the GPT-OSS FastAPI gateway (src/main.py).                     *)
(*                                                                         *)
(* The state is the state of the chat handler `chat` for each request:     *)
(* its inputs (Authorization header, JSON body), its locals (model,        *)
(* messages, stream, is_ollama, payload), the per-request httpx client,    *)
(* the calls issued to the backend, the response handed to the caller and  *)
(* the frames written by the streaming generators.  The handler is cut at  *)
(* its suspension points (the awaits).                                     *)
(*                                                                         *)
(* Python values: None / an absent dict key is the empty tuple <<>>, a     *)
(* present value x is <<x>>.  Header strings are tuples of characters so   *)
(* that startswith and split are computed; JSON scalars of the body are    *)
(* kept as their JSON text.  Bodies are JSON values (what request.json(),  *)
(* r.json(), json= and JSONResponse exchange), a body that does not parse  *)
(* is <<>>.                                                                *)
(***************************************************************************)
EXTENDS Integers, Sequences, FiniteSets, TLC

VARIABLES
    API_KEY,        \* module global, read from the environment
    authorization,  \* per request: the Authorization header
    body,           \* per request: the caller's JSON body
    pc,             \* per request: position of the handler / generator
    model,          \* local `model`
    messages,       \* local `messages`
    stream,         \* local `stream`
    is_ollama,      \* local `is_ollama`
    payload,        \* local `payload` (Native path only)
    client,         \* state of the per-request httpx.AsyncClient
    calls,          \* per request: backend calls issued, in order
    resp,           \* per request: what the caller receives as response head/body
    exc,            \* per request: exception that ended the handler or generator
    upstream,       \* per request: state of the streamed backend response
    items,          \* per request: lines / chunks read from the backend stream
    frames,         \* per request: frames yielded to the caller
    hpc,            \* position of the handler `health`
    hcalls,         \* backend calls issued by `health`, in order
    hresp           \* what the caller of /health receives

\* The state of the handler `health`.
healthVars == << hpc, hcalls, hresp >>

vars == << API_KEY, authorization, body, pc, model, messages, stream, is_ollama,
           payload, client, calls, resp, exc, upstream, items, frames,
           hpc, hcalls, hresp >>

----------------------------------------------------------------------------
(* Bounds of the model *)

MaxMsgs == 2

MaxLines == 3

MaxChunks == 2

MaxModels == 2

----------------------------------------------------------------------------
(* Values *)

None == << >>

Some(x) == << x >>

SeqsUpTo(S, n) == UNION { [1..k -> S] : k \in 0..n }

Reqs == { "r1", "r2" }

\* Requests that are received in the executions of Spec.
Active == { "r1" }

sBearer == << "B", "e", "a", "r", "e", "r" >>

sBasic == << "B", "a", "s", "i", "c" >>

sLower == << "b", "e", "a", "r", "e", "r" >>

sSpace == << " " >>

sAbc == << "a", "b", "c" >>

sXyz == << "x", "y", "z" >>

\* Values of the API_KEY environment variable.
Keys == { None, Some(<< >>), Some(sAbc) }

\* Authorization headers a caller may send (None: no header).
Headers ==
    { None, Some(<< >>), Some(sBearer), Some(sBearer \o sSpace) }
      \cup { Some(s \o sSpace \o t) : s \in { sBearer, sBasic, sLower }, t \in { sAbc, sXyz } }

Msgs == { [role |-> "user", content |-> "hi"],
          [role |-> "assistant", content |-> "hello"] }

\* Caller bodies: JSON objects with each ChatRequest field present or absent.
Bodies ==
    [ model : { None, Some("gpt-oss") },
      messages : { None } \cup { Some(s) : s \in SeqsUpTo(Msgs, MaxMsgs) },
      stream : { None, Some("true"), Some("false"), Some("1"), Some("0") },
      temperature : { None, Some("0.2") } ]

EmptyBody == [model |-> None, messages |-> None, stream |-> None, temperature |-> None]

Statuses == { 200, 404, 500 }

NoResponse == [err |-> TRUE, status |-> 0, body |-> None]

Response(s, b) == [err |-> FALSE, status |-> s, body |-> b]

\* Outcomes of GET /api/tags: a status, or a timeout / connection error.
ProbeAnswers == { NoResponse } \cup { Response(s, None) : s \in { 200, 204, 404 } }

NativeData ==
    [ message : { None, Some([content |-> None]), Some([content |-> Some("hello")]) },
      done_reason : { None, Some("stop"), Some("length") } ]

\* Outcomes of POST /api/chat (unary).
NativeAnswers ==
    { NoResponse } \cup { Response(s, b) : s \in Statuses, b \in { None } \cup { Some(d) : d \in NativeData } }

CompatData == { [object |-> "chat.completion", text |-> "hi"],
                [object |-> "error", text |-> "overloaded"] }

\* Outcomes of POST /v1/chat/completions (unary).
CompatAnswers ==
    { NoResponse } \cup { Response(s, b) : s \in Statuses, b \in { None } \cup { Some(d) : d \in CompatData } }

\* Outcomes of opening a streamed call: the response head.
StreamAnswers == { NoResponse } \cup { Response(s, None) : s \in Statuses }

\* Lines the Native backend may emit (aiter_lines yields them without line ends).
Lines == { "", "{\"message\":{\"content\":\"hi\"}}", "{\"done\":true}" }

\* Byte chunks the OpenAI-compatible backend may emit.
Chunks == { "data: {\"choices\":[]}\n\n", "data: [DONE]\n\n" }

\* Entries of a model listing: an object with or without the label read
\* ("name" / "id"), or something that is not an object.
Entries == { [dict |-> TRUE, label |-> Some("gpt-oss")],
             [dict |-> TRUE, label |-> None],
             [dict |-> FALSE, label |-> None] }

\* Bodies of a 200 answer to a listing probe: unparseable, a JSON value that
\* is not an object, an object without the list key, an object with a list.
ListingBodies ==
    { None, Some([object |-> FALSE, list |-> None]), Some([object |-> TRUE, list |-> None]) }
      \cup { Some([object |-> TRUE, list |-> Some(l)]) : l \in SeqsUpTo(Entries, MaxModels) }

\* Outcomes of GET /api/tags and GET /v1/models in health.
ListingAnswers ==
    { NoResponse } \cup { Response(s, None) : s \in { 204, 404, 500 } }
                  \cup { Response(200, b) : b \in ListingBodies }

----------------------------------------------------------------------------
(* Pure functions *)

Get(opt, default) == IF opt = None THEN default ELSE opt[1]

StartsWith(s, p) == Len(s) >= Len(p) /\ SubSeq(s, 1, Len(p)) = p

\* s.split(" ", 1)[1]: what follows the first space of s.
AfterFirstSpace(s) ==
    LET i == CHOOSE k \in 1..Len(s) : s[k] = " " /\ \A j \in 1..(k - 1) : s[j] # " "
    IN  SubSeq(s, i + 1, Len(s))

\* Python truthiness of `k` / `auth`: None and "" are falsy.
Falsy(opt) == opt = None \/ opt = Some(<< >>)

HTTPException(status, detail) == Some([status_code |-> status, detail |-> detail])

\* require_auth with the scheme test dropped: any header is split at its first space.
require_auth_NoSchemeTest(auth) ==
    IF Falsy(API_KEY) THEN None
    ELSE IF Falsy(auth) \/ ~(\E k \in 1..Len(auth[1]) : auth[1][k] = " ")
         THEN HTTPException(401, "Missing Authorization header")
    ELSE IF AfterFirstSpace(auth[1]) # API_KEY[1]
         THEN HTTPException(403, "Invalid API key")
    ELSE None

\* require_auth: None when it returns, the HTTPException when it raises.
require_auth(auth) ==
    IF Falsy(API_KEY) THEN None
    ELSE IF Falsy(auth) \/ ~StartsWith(auth[1], sBearer \o sSpace)
         THEN HTTPException(401, "Missing Authorization header")
    ELSE IF AfterFirstSpace(auth[1]) # API_KEY[1]
         THEN HTTPException(403, "Invalid API key")
    ELSE None

\* The labels of the entries of l, in order.
Labels(l) == [i \in 1..Len(l) |-> l[i].label]

\* [m.get("name") for m in r.json().get("models", []) if isinstance(m, dict)]:
\* None when the expression raises.
NativeModels(b) ==
    IF b = None \/ ~b[1].object THEN None
    ELSE Some(Labels(SelectSeq(Get(b[1].list, << >>), LAMBDA e : e.dict)))

\* [m.get("id") for m in r.json().get("data", [])]: None when the expression raises.
CompatModels(b) ==
    IF b = None \/ ~b[1].object THEN None
    ELSE IF \E i \in DOMAIN Get(b[1].list, << >>) : ~Get(b[1].list, << >>)[i].dict THEN None
    ELSE Some(Labels(Get(b[1].list, << >>)))

\* bool(v) of a JSON scalar.
Truthy(v) == v \notin { "false", "0", "null", "\"\"" }

\* Response.is_success, the test of raise_for_status.
IsSuccess(status) == status \in 200..299

\* The Native unary body with finish_reason fixed to "stop" (done_reason ignored).
NativeCompletion_FixedFinish(m, data) ==
    [ id |-> "chatcmpl-ollama",
      object |-> "chat.completion",
      model |-> m,
      choices |-> << [ index |-> 0,
                       message |-> [ role |-> "assistant",
                                     content |-> Get(Get(data.message, [content |-> None]).content, "") ],
                       finish_reason |-> "stop" ] >> ]

\* The body built at `return JSONResponse({...})` of the Native unary path.
NativeCompletion(m, data) ==
    [ id |-> "chatcmpl-ollama",
      object |-> "chat.completion",
      model |-> m,
      choices |-> << [ index |-> 0,
                       message |-> [ role |-> "assistant",
                                     content |-> Get(Get(data.message, [content |-> None]).content, "") ],
                       finish_reason |-> Get(data.done_reason, "stop") ] >> ]

\* The payload with `stream` left at false whatever the caller asked.
NativePayload_NeverStream(m, ms, st) == [model |-> m, messages |-> ms, stream |-> FALSE]

\* payload = {"model": model, "messages": messages, "stream": stream}
NativePayload(m, ms, st) == [model |-> m, messages |-> ms, stream |-> st]

\* The frame yielded for a backend line by streamer.
Frame(line) == "data: " \o line \o "\n\n"

\* streamer without the `if line` test: a frame for every line, blank ones included.
StreamerYield_NoBlankTest(line) == << Frame(line) >>

\* `if line: yield f"data: {line}\n\n"`: what one backend line adds to the frames.
StreamerYield(line) == IF line # "" THEN << Frame(line) >> ELSE << >>

DoneFrame == "data: [DONE]\n\n"

----------------------------------------------------------------------------
(* What the caller receives *)

NoResp == [kind |-> "none", status |-> 0, content |-> None]

JSONResponse(status, content) == [kind |-> "json", status |-> status, content |-> Some(content)]

\* FastAPI's rendering of a raised HTTPException.
HTTPExceptionResponse(e) ==
    [kind |-> "http_exception", status |-> e.status_code, content |-> Some([detail |-> e.detail])]

\* An exception that leaves the handler: the framework answers 500, text/plain.
ServerErrorResponse == [kind |-> "server_error", status |-> 500, content |-> None]

\* StreamingResponse(..., media_type="text/event-stream"): status 200, body = the frames.
StreamingResponse == [kind |-> "sse", status |-> 200, content |-> None]

Call(ep, json, streamed, clientState, answer) ==
    [ep |-> ep, json |-> json, streamed |-> streamed, client |-> clientState, answer |-> answer]

TagsEP == "GET /api/tags"

NativeChatEP == "POST /api/chat"

CompatChatEP == "POST /v1/chat/completions"

ModelsEP == "GET /v1/models"

BASE == "http://gpt-oss-model.railway.internal:11434"

----------------------------------------------------------------------------
(* Initial state *)

Init ==
    /\ API_KEY \in Keys
    /\ \E h \in Headers : authorization = [r \in Reqs |-> IF r \in Active THEN h ELSE None]
    /\ \E b \in Bodies : body = [r \in Reqs |-> IF r \in Active THEN b ELSE EmptyBody]
    /\ pc = [r \in Reqs |-> IF r \in Active THEN "start" ELSE "idle"]
    /\ model = [r \in Reqs |-> ""]
    /\ messages = [r \in Reqs |-> << >>]
    /\ stream = [r \in Reqs |-> FALSE]
    /\ is_ollama = [r \in Reqs |-> FALSE]
    /\ payload = [r \in Reqs |-> None]
    /\ client = [r \in Reqs |-> "none"]
    /\ calls = [r \in Reqs |-> << >>]
    /\ resp = [r \in Reqs |-> NoResp]
    /\ exc = [r \in Reqs |-> "none"]
    /\ upstream = [r \in Reqs |-> "none"]
    /\ items = [r \in Reqs |-> << >>]
    /\ frames = [r \in Reqs |-> << >>]
    /\ hpc = "idle"
    /\ hcalls = << >>
    /\ hresp = NoResp

----------------------------------------------------------------------------
(* chat: lines 50-58.  require_auth, request.json(), the three locals, and *)
(* the entry of `async with httpx.AsyncClient(...)`.                       *)

\* chat with the probe issued before the auth guard.
ChatEnter_ProbeBeforeAuth(r) ==
    /\ pc[r] = "start"
    /\ LET e == require_auth(authorization[r])
       IN  IF e # None
           THEN /\ resp' = [resp EXCEPT ![r] = HTTPExceptionResponse(e[1])]
                /\ exc' = [exc EXCEPT ![r] = "HTTPException"]
                /\ pc' = [pc EXCEPT ![r] = "done"]
                /\ calls' = [calls EXCEPT ![r] = Append(@, Call(TagsEP, None, FALSE, "open", NoResponse))]
                /\ client' = [client EXCEPT ![r] = "closed"]
                /\ UNCHANGED << model, messages, stream >>
           ELSE /\ model' = [model EXCEPT ![r] = Get(body[r].model, "llama3.1")]
                /\ messages' = [messages EXCEPT ![r] = Get(body[r].messages, << >>)]
                /\ stream' = [stream EXCEPT ![r] = Truthy(Get(body[r].stream, "false"))]
                /\ client' = [client EXCEPT ![r] = "open"]
                /\ pc' = [pc EXCEPT ![r] = "probe"]
                /\ UNCHANGED << resp, exc, calls >>
    /\ UNCHANGED healthVars
    /\ UNCHANGED << API_KEY, authorization, body, is_ollama, payload,
                    upstream, items, frames >>

ChatEnter(r) ==
    /\ pc[r] = "start"
    /\ LET e == require_auth(authorization[r])
       IN  IF e # None
           THEN /\ resp' = [resp EXCEPT ![r] = HTTPExceptionResponse(e[1])]
                /\ exc' = [exc EXCEPT ![r] = "HTTPException"]
                /\ pc' = [pc EXCEPT ![r] = "done"]
                /\ UNCHANGED << model, messages, stream, client >>
           ELSE /\ model' = [model EXCEPT ![r] = Get(body[r].model, "llama3.1")]
                /\ messages' = [messages EXCEPT ![r] = Get(body[r].messages, << >>)]
                /\ stream' = [stream EXCEPT ![r] = Truthy(Get(body[r].stream, "false"))]
                /\ client' = [client EXCEPT ![r] = "open"]
                /\ pc' = [pc EXCEPT ![r] = "probe"]
                /\ UNCHANGED << resp, exc >>
    /\ UNCHANGED healthVars
    /\ UNCHANGED << API_KEY, authorization, body, is_ollama, payload, calls,
                    upstream, items, frames >>

(* chat: lines 59-68.  The probe of /api/tags, is_ollama, and on the       *)
(* Native path the payload.                                                *)

\* The dialect kept in one process-wide flag that every probe overwrites.
Probe_SharedDialect(r) ==
    /\ pc[r] = "probe"
    /\ \E a \in ProbeAnswers :
          LET native == ~a.err /\ a.status = 200
          IN  /\ calls' = [calls EXCEPT ![r] = Append(@, Call(TagsEP, None, FALSE, client[r], a))]
              /\ is_ollama' = [q \in Reqs |-> native]
              /\ payload' = [payload EXCEPT ![r] =
                                IF native
                                THEN Some(NativePayload(model[r], messages[r], stream[r]))
                                ELSE None]
    /\ pc' = [pc EXCEPT ![r] = IF stream[r] THEN "return_stream" ELSE "post"]
    /\ UNCHANGED healthVars
    /\ UNCHANGED << API_KEY, authorization, body, model, messages, stream, client,
                    resp, exc, upstream, items, frames >>

Probe(r) ==
    /\ pc[r] = "probe"
    /\ \E a \in ProbeAnswers :
          LET native == ~a.err /\ a.status = 200
          IN  /\ calls' = [calls EXCEPT ![r] = Append(@, Call(TagsEP, None, FALSE, client[r], a))]
              /\ is_ollama' = [is_ollama EXCEPT ![r] = native]
              /\ payload' = [payload EXCEPT ![r] =
                                IF native
                                THEN Some(NativePayload(model[r], messages[r], stream[r]))
                                ELSE None]
    /\ pc' = [pc EXCEPT ![r] = IF stream[r] THEN "return_stream" ELSE "post"]
    /\ UNCHANGED healthVars
    /\ UNCHANGED << API_KEY, authorization, body, model, messages, stream, client,
                    resp, exc, upstream, items, frames >>

(* chat: lines 69-83.  Native unary call and the reshaped response; the    *)
(* return or the raise leaves `async with`, which closes the client.       *)

\* The Native unary call reissued once when the backend does not answer 2xx.
NativeUnary_RetryOnError(r) ==
    /\ pc[r] = "post"
    /\ is_ollama[r]
    /\ \E a \in NativeAnswers :
          /\ calls' = [calls EXCEPT ![r] =
                          IF a.err \/ ~IsSuccess(a.status)
                          THEN @ \o << Call(NativeChatEP, payload[r], FALSE, client[r], a),
                                       Call(NativeChatEP, payload[r], FALSE, client[r], a) >>
                          ELSE Append(@, Call(NativeChatEP, payload[r], FALSE, client[r], a))]
          /\ IF a.err
             THEN /\ exc' = [exc EXCEPT ![r] = "ConnectError"]
                  /\ resp' = [resp EXCEPT ![r] = ServerErrorResponse]
             ELSE IF ~IsSuccess(a.status)
             THEN /\ exc' = [exc EXCEPT ![r] = "HTTPStatusError"]
                  /\ resp' = [resp EXCEPT ![r] = ServerErrorResponse]
             ELSE IF a.body = None
             THEN /\ exc' = [exc EXCEPT ![r] = "JSONDecodeError"]
                  /\ resp' = [resp EXCEPT ![r] = ServerErrorResponse]
             ELSE /\ resp' = [resp EXCEPT ![r] = JSONResponse(200, NativeCompletion(model[r], a.body[1]))]
                  /\ UNCHANGED exc
    /\ client' = [client EXCEPT ![r] = "closed"]
    /\ pc' = [pc EXCEPT ![r] = "done"]
    /\ UNCHANGED healthVars
    /\ UNCHANGED << API_KEY, authorization, body, model, messages, stream, is_ollama,
                    payload, upstream, items, frames >>

NativeUnary(r) ==
    /\ pc[r] = "post"
    /\ is_ollama[r]
    /\ \E a \in NativeAnswers :
          /\ calls' = [calls EXCEPT ![r] = Append(@, Call(NativeChatEP, payload[r], FALSE, client[r], a))]
          /\ IF a.err
             THEN /\ exc' = [exc EXCEPT ![r] = "ConnectError"]
                  /\ resp' = [resp EXCEPT ![r] = ServerErrorResponse]
             ELSE IF ~IsSuccess(a.status)
             THEN /\ exc' = [exc EXCEPT ![r] = "HTTPStatusError"]
                  /\ resp' = [resp EXCEPT ![r] = ServerErrorResponse]
             ELSE IF a.body = None
             THEN /\ exc' = [exc EXCEPT ![r] = "JSONDecodeError"]
                  /\ resp' = [resp EXCEPT ![r] = ServerErrorResponse]
             ELSE /\ resp' = [resp EXCEPT ![r] = JSONResponse(200, NativeCompletion(model[r], a.body[1]))]
                  /\ UNCHANGED exc
    /\ client' = [client EXCEPT ![r] = "closed"]
    /\ pc' = [pc EXCEPT ![r] = "done"]
    /\ UNCHANGED healthVars
    /\ UNCHANGED << API_KEY, authorization, body, model, messages, stream, is_ollama,
                    payload, upstream, items, frames >>

(* chat: lines 94-96.  OpenAI-compatible unary call, relayed.              *)

CompatUnary(r) ==
    /\ pc[r] = "post"
    /\ ~is_ollama[r]
    /\ \E a \in CompatAnswers :
          /\ calls' = [calls EXCEPT ![r] = Append(@, Call(CompatChatEP, Some(body[r]), FALSE, client[r], a))]
          /\ IF a.err
             THEN /\ exc' = [exc EXCEPT ![r] = "ConnectError"]
                  /\ resp' = [resp EXCEPT ![r] = ServerErrorResponse]
             ELSE IF a.body = None
             THEN /\ exc' = [exc EXCEPT ![r] = "JSONDecodeError"]
                  /\ resp' = [resp EXCEPT ![r] = ServerErrorResponse]
             ELSE /\ resp' = [resp EXCEPT ![r] = JSONResponse(a.status, a.body[1])]
                  /\ UNCHANGED exc
    /\ client' = [client EXCEPT ![r] = "closed"]
    /\ pc' = [pc EXCEPT ![r] = "done"]
    /\ UNCHANGED healthVars
    /\ UNCHANGED << API_KEY, authorization, body, model, messages, stream, is_ollama,
                    payload, upstream, items, frames >>

(* chat: lines 91 and 103.  `return StreamingResponse(...)` from inside    *)
(* `async with ... as client` (line 58): the client is closed on the way   *)
(* out, the generator has not run yet.  The framework then sends the       *)
(* response head (200, text/event-stream) and iterates the generator.      *)

ReturnStreaming(r) ==
    /\ pc[r] = "return_stream"
    /\ resp' = [resp EXCEPT ![r] = StreamingResponse]
    /\ client' = [client EXCEPT ![r] = "closed"]
    /\ pc' = [pc EXCEPT ![r] = "gen_open"]
    /\ UNCHANGED healthVars
    /\ UNCHANGED << API_KEY, authorization, body, model, messages, stream, is_ollama,
                    payload, calls, exc, upstream, items, frames >>

(* streamer / streamer2: lines 85-86 and 99-100.  First step of the        *)
(* generator: client.stream(...) on the handler's client, then             *)
(* raise_for_status.  The client is already closed here.  Sending on a     *)
(* closed client is outside httpx's contract and the repository pins no    *)
(* httpx version: a build either raises RuntimeError before anything is    *)
(* sent, or sends the request on a fresh connection.                       *)

ClosedClientOutcomes == { "RuntimeError", "sent" }

SendOutcomes(clientState) == IF clientState = "closed" THEN ClosedClientOutcomes ELSE { "sent" }

StreamEP(native) == IF native THEN NativeChatEP ELSE CompatChatEP

\* The streamed call sending the Native translation on both paths.
StreamJson_AlwaysTranslated(r) == Some(NativePayload(model[r], messages[r], stream[r]))

\* json= of the streamed call: payload (line 85) or the caller's body (line 99).
StreamJson(r) == IF is_ollama[r] THEN payload[r] ELSE Some(body[r])

StreamOpen(r) ==
    /\ pc[r] = "gen_open"
    /\ \E o \in SendOutcomes(client[r]), a \in StreamAnswers :
          IF o = "RuntimeError"
          THEN /\ a = NoResponse
               /\ exc' = [exc EXCEPT ![r] = "RuntimeError"]
               /\ pc' = [pc EXCEPT ![r] = "done"]
               /\ UNCHANGED << calls, upstream >>
          ELSE /\ calls' = [calls EXCEPT ![r] =
                               Append(@, Call(StreamEP(is_ollama[r]), StreamJson(r), TRUE, client[r], a))]
               /\ IF a.err
                  THEN /\ exc' = [exc EXCEPT ![r] = "ConnectError"]
                       /\ pc' = [pc EXCEPT ![r] = "done"]
                       /\ UNCHANGED upstream
                  ELSE IF ~IsSuccess(a.status)
                  THEN /\ exc' = [exc EXCEPT ![r] = "HTTPStatusError"]
                       /\ upstream' = [upstream EXCEPT ![r] = "closed"]
                       /\ pc' = [pc EXCEPT ![r] = "done"]
                  ELSE /\ upstream' = [upstream EXCEPT ![r] = "open"]
                       /\ pc' = [pc EXCEPT ![r] = "gen_read"]
                       /\ UNCHANGED exc
    /\ UNCHANGED healthVars
    /\ UNCHANGED << API_KEY, authorization, body, model, messages, stream, is_ollama,
                    payload, client, resp, items, frames >>

(* streamer: lines 87-89.  One line of r.aiter_lines().                    *)

NativeStreamLine(r) ==
    /\ pc[r] = "gen_read"
    /\ is_ollama[r]
    /\ Len(items[r]) < MaxLines
    /\ \E line \in Lines :
          /\ items' = [items EXCEPT ![r] = Append(@, line)]
          /\ frames' = [frames EXCEPT ![r] = @ \o StreamerYield(line)]
    /\ UNCHANGED healthVars
    /\ UNCHANGED << API_KEY, authorization, body, pc, model, messages, stream, is_ollama,
                    payload, client, calls, resp, exc, upstream >>

(* streamer: line 90.  The backend stream ended: the terminal frame, then  *)
(* the exit of `async with client.stream(...)`.                            *)

NativeStreamEnd(r) ==
    /\ pc[r] = "gen_read"
    /\ is_ollama[r]
    /\ frames' = [frames EXCEPT ![r] = Append(@, DoneFrame)]
    /\ upstream' = [upstream EXCEPT ![r] = "closed"]
    /\ pc' = [pc EXCEPT ![r] = "done"]
    /\ UNCHANGED healthVars
    /\ UNCHANGED << API_KEY, authorization, body, model, messages, stream, is_ollama,
                    payload, client, calls, resp, exc, items >>

(* streamer2: lines 101-102.  One chunk of r.aiter_bytes().                *)

CompatStreamChunk(r) ==
    /\ pc[r] = "gen_read"
    /\ ~is_ollama[r]
    /\ Len(items[r]) < MaxChunks
    /\ \E chunk \in Chunks :
          /\ items' = [items EXCEPT ![r] = Append(@, chunk)]
          /\ frames' = [frames EXCEPT ![r] = Append(@, chunk)]
    /\ UNCHANGED healthVars
    /\ UNCHANGED << API_KEY, authorization, body, pc, model, messages, stream, is_ollama,
                    payload, client, calls, resp, exc, upstream >>

(* streamer2: end of the loop at line 101 and exit of `async with`.        *)

CompatStreamEnd(r) ==
    /\ pc[r] = "gen_read"
    /\ ~is_ollama[r]
    /\ upstream' = [upstream EXCEPT ![r] = "closed"]
    /\ pc' = [pc EXCEPT ![r] = "done"]
    /\ UNCHANGED healthVars
    /\ UNCHANGED << API_KEY, authorization, body, model, messages, stream, is_ollama,
                    payload, client, calls, resp, exc, items, frames >>

(* streamer / streamer2: the backend connection fails while the generator  *)
(* waits for the next line or chunk: the read raises, `async with` closes  *)
(* the backend response, the exception ends the generator.                 *)

\* The generators with the terminal frame in a `finally`: written on failure too.
StreamFail_EmitsDone(r) ==
    /\ pc[r] = "gen_read"
    /\ exc' = [exc EXCEPT ![r] = "ReadError"]
    /\ upstream' = [upstream EXCEPT ![r] = "closed"]
    /\ frames' = [frames EXCEPT ![r] = Append(@, DoneFrame)]
    /\ pc' = [pc EXCEPT ![r] = "done"]
    /\ UNCHANGED healthVars
    /\ UNCHANGED << API_KEY, authorization, body, model, messages, stream, is_ollama,
                    payload, client, calls, resp, items >>

StreamFail(r) ==
    /\ pc[r] = "gen_read"
    /\ exc' = [exc EXCEPT ![r] = "ReadError"]
    /\ upstream' = [upstream EXCEPT ![r] = "closed"]
    /\ pc' = [pc EXCEPT ![r] = "done"]
    /\ UNCHANGED healthVars
    /\ UNCHANGED << API_KEY, authorization, body, model, messages, stream, is_ollama,
                    payload, client, calls, resp, items, frames >>

(* streamer / streamer2: the caller disconnects while the generator is     *)
(* suspended inside `async with client.stream(...)` (lines 85-90, 99-102), *)
(* waiting for the backend or at a yield.  The framework cancels or closes *)
(* the generator: CancelledError / GeneratorExit is raised at the          *)
(* suspension point and the exit of `async with` closes the backend        *)
(* response.                                                               *)

\* The generators reading the backend response without `async with`: an
\* exception at the suspension point leaves the response open.
CallerDisconnect_NoRelease(r) ==
    /\ pc[r] = "gen_read"
    /\ exc' = [exc EXCEPT ![r] = "CancelledError"]
    /\ pc' = [pc EXCEPT ![r] = "done"]
    /\ UNCHANGED healthVars
    /\ UNCHANGED << API_KEY, authorization, body, model, messages, stream, is_ollama,
                    payload, client, calls, resp, upstream, items, frames >>

CallerDisconnect(r) ==
    /\ pc[r] = "gen_read"
    /\ exc' = [exc EXCEPT ![r] = "CancelledError"]
    /\ upstream' = [upstream EXCEPT ![r] = "closed"]
    /\ pc' = [pc EXCEPT ![r] = "done"]
    /\ UNCHANGED healthVars
    /\ UNCHANGED << API_KEY, authorization, body, model, messages, stream, is_ollama,
                    payload, client, calls, resp, items, frames >>

----------------------------------------------------------------------------
(* health: lines 29-38.  The Native probe inside its try; a 200 whose body *)
(* is read without an exception returns, anything else falls through.      *)

\* health with r.json() of the Native probe read outside the try.
HealthNative_JsonOutsideTry ==
    /\ hpc = "start"
    /\ \E a \in ListingAnswers :
          /\ hcalls' = Append(hcalls, Call(TagsEP, None, FALSE, "open", a))
          /\ IF ~a.err /\ a.status = 200 /\ NativeModels(a.body) # None
             THEN /\ hresp' = JSONResponse(200, [ok |-> TRUE, backend |-> "ollama", base |-> BASE,
                                                  models |-> NativeModels(a.body)[1]])
                  /\ hpc' = "done"
             ELSE IF ~a.err /\ a.status = 200
             THEN /\ hresp' = ServerErrorResponse
                  /\ hpc' = "done"
             ELSE /\ hpc' = "compat"
                  /\ UNCHANGED hresp
    /\ UNCHANGED << API_KEY, authorization, body, pc, model, messages, stream, is_ollama,
                    payload, client, calls, resp, exc, upstream, items, frames >>

HealthNative ==
    /\ hpc = "start"
    /\ \E a \in ListingAnswers :
          /\ hcalls' = Append(hcalls, Call(TagsEP, None, FALSE, "open", a))
          /\ IF ~a.err /\ a.status = 200 /\ NativeModels(a.body) # None
             THEN /\ hresp' = JSONResponse(200, [ok |-> TRUE, backend |-> "ollama", base |-> BASE,
                                                  models |-> NativeModels(a.body)[1]])
                  /\ hpc' = "done"
             ELSE /\ hpc' = "compat"
                  /\ UNCHANGED hresp
    /\ UNCHANGED << API_KEY, authorization, body, pc, model, messages, stream, is_ollama,
                    payload, client, calls, resp, exc, upstream, items, frames >>

(* health: lines 39-47.  The OpenAI-compatible probe inside its try, and   *)
(* the final return when neither probe returned.                           *)

HealthCompat ==
    /\ hpc = "compat"
    /\ \E a \in ListingAnswers :
          /\ hcalls' = Append(hcalls, Call(ModelsEP, None, FALSE, "open", a))
          /\ hresp' = IF ~a.err /\ a.status = 200 /\ CompatModels(a.body) # None
                      THEN JSONResponse(200, [ok |-> TRUE, backend |-> "openai-compatible", base |-> BASE,
                                              models |-> CompatModels(a.body)[1]])
                      ELSE JSONResponse(200, [ok |-> FALSE, base |-> BASE,
                                              error |-> "Could not reach upstream"])
    /\ hpc' = "done"
    /\ UNCHANGED << API_KEY, authorization, body, pc, model, messages, stream, is_ollama,
                    payload, client, calls, resp, exc, upstream, items, frames >>

\* Executions of GET /health: no chat request is received.
InitHealth ==
    /\ API_KEY \in Keys
    /\ authorization = [r \in Reqs |-> None]
    /\ body = [r \in Reqs |-> EmptyBody]
    /\ pc = [r \in Reqs |-> "idle"]
    /\ model = [r \in Reqs |-> ""]
    /\ messages = [r \in Reqs |-> << >>]
    /\ stream = [r \in Reqs |-> FALSE]
    /\ is_ollama = [r \in Reqs |-> FALSE]
    /\ payload = [r \in Reqs |-> None]
    /\ client = [r \in Reqs |-> "none"]
    /\ calls = [r \in Reqs |-> << >>]
    /\ resp = [r \in Reqs |-> NoResp]
    /\ exc = [r \in Reqs |-> "none"]
    /\ upstream = [r \in Reqs |-> "none"]
    /\ items = [r \in Reqs |-> << >>]
    /\ frames = [r \in Reqs |-> << >>]
    /\ hpc = "start"
    /\ hcalls = << >>
    /\ hresp = NoResp

NextHealth == HealthNative \/ HealthCompat

SpecHealth == InitHealth /\ [][NextHealth]_vars

----------------------------------------------------------------------------

Next ==
    \E r \in Reqs :
        \/ ChatEnter(r)
        \/ Probe(r)
        \/ NativeUnary(r)
        \/ CompatUnary(r)
        \/ ReturnStreaming(r)
        \/ StreamOpen(r)
        \/ NativeStreamLine(r)
        \/ NativeStreamEnd(r)
        \/ CompatStreamChunk(r)
        \/ CompatStreamEnd(r)
        \/ StreamFail(r)
        \/ CallerDisconnect(r)

Spec == Init /\ [][Next]_vars

(* Two requests in flight at once.  Each request is handled by its own     *)
(* invocation of chat (line 50) on the event loop; the invocations         *)
(* interleave at every await.  The module-level names (lines 10-14) are    *)
(* assigned once at import.                                                *)

\* Bodies of the concurrent callers: a streamed request without a model and
\* a unary request that names one.
ConcBodies ==
    { [model |-> None, messages |-> Some(<< [role |-> "user", content |-> "hi"] >>),
       stream |-> Some("true"), temperature |-> Some("0.2")],
      [model |-> Some("gpt-oss"), messages |-> None, stream |-> None, temperature |-> None] }

ConcHeaders == { None, Some(sBearer \o sSpace \o sAbc) }

InitConc ==
    /\ API_KEY = Some(sAbc)
    /\ authorization \in [Reqs -> ConcHeaders]
    /\ body \in [Reqs -> ConcBodies]
    /\ pc = [r \in Reqs |-> "start"]
    /\ model = [r \in Reqs |-> ""]
    /\ messages = [r \in Reqs |-> << >>]
    /\ stream = [r \in Reqs |-> FALSE]
    /\ is_ollama = [r \in Reqs |-> FALSE]
    /\ payload = [r \in Reqs |-> None]
    /\ client = [r \in Reqs |-> "none"]
    /\ calls = [r \in Reqs |-> << >>]
    /\ resp = [r \in Reqs |-> NoResp]
    /\ exc = [r \in Reqs |-> "none"]
    /\ upstream = [r \in Reqs |-> "none"]
    /\ items = [r \in Reqs |-> << >>]
    /\ frames = [r \in Reqs |-> << >>]
    /\ hpc = "idle"
    /\ hcalls = << >>
    /\ hresp = NoResp

SpecConc == InitConc /\ [][Next]_vars

----------------------------------------------------------------------------
(* Claims *)

\* The handler of r has passed the auth guard.
PassedAuth(r) == pc[r] \notin { "idle", "start" } /\ resp[r].kind # "http_exception"

\* The handler of r was rejected by the auth guard.
Rejected(r) == resp[r].kind = "http_exception"

BearerOf(token) == sBearer \o sSpace \o token

\* C2: the auth decision.  With no API key configured (API_KEY unset or
\* empty) every Authorization header, absent included, is accepted.  With
\* a key K configured, an absent header or one that does not start with
\* "Bearer " yields 401, "Bearer T" with T # K yields 403, "Bearer K" is
\* accepted.
C2_AuthDecision ==
    \A r \in Reqs :
        pc[r] \notin { "idle", "start" } =>
            LET h == authorization[r]
                configured == API_KEY # None /\ API_KEY # Some(<< >>)
                wellFormed == h # None /\ \E t \in { sAbc, sXyz, << >> } : h[1] = BearerOf(t)
            IN  /\ ~configured => PassedAuth(r)
                /\ configured /\ ~wellFormed => Rejected(r) /\ resp[r].status = 401
                /\ configured /\ wellFormed /\ h[1] # BearerOf(API_KEY[1])
                      => Rejected(r) /\ resp[r].status = 403
                /\ configured /\ wellFormed /\ h[1] = BearerOf(API_KEY[1]) => PassedAuth(r)

\* C2 witness: a key is configured and a bearer header with another token was answered 403.
C2_Witness ==
    \E r \in Reqs :
        /\ API_KEY = Some(sAbc)
        /\ authorization[r] = Some(BearerOf(sXyz))
        /\ resp[r].status = 403

\* C3: a chat request rejected by the auth guard (401 or 403) issues no
\* backend call, neither the probe nor a forwarded chat call, and opens no
\* backend client.
C3_NoBackendCallOnReject ==
    \A r \in Reqs :
        Rejected(r) => /\ resp[r].status \in { 401, 403 }
                       /\ calls[r] = << >>
                       /\ client[r] = "none"
                       /\ pc[r] = "done"

\* C3 witness: a request was rejected with 401 and its handler has ended.
C3_Witness ==
    \E r \in Reqs : Rejected(r) /\ resp[r].status = 401 /\ pc[r] = "done"

\* The forwarded chat calls of r (every backend call but the probe).
Forwarded(r) == SelectSeq(calls[r], LAMBDA c : c.ep # TagsEP)

\* The backend answered every forwarded call of r with a status and a JSON body
\* (a streamed call: with a status).
Answered(r) ==
    \A i \in DOMAIN calls[r] :
        LET c == calls[r][i]
        IN  c.ep # TagsEP => ~c.answer.err /\ (c.streamed \/ c.answer.body # None)

\* The caller's `stream` flag is a JSON boolean or absent.
FlagTrue(r) == body[r].stream = Some("true")

FlagFalse(r) == body[r].stream \in { None, Some("false") }

\* C1: every request that passes auth produces exactly one of {unary JSON
\* response, SSE stream}: an SSE stream when the caller's stream flag is
\* true, a unary JSON response when it is false or absent, on both
\* dialects and whatever the backend answers to the probe and to the
\* forwarded call.
C1_ResponseKindByStreamFlag ==
    \A r \in Reqs :
        pc[r] = "done" /\ PassedAuth(r) /\ Answered(r) =>
            /\ FlagTrue(r) => resp[r].kind = "sse"
            /\ FlagFalse(r) => resp[r].kind = "json"

\* C4: for every request that passes auth the probe of /api/tags is issued
\* first and once; the request is then forwarded to the native chat
\* endpoint if and only if the probe returned 200, and to the
\* OpenAI-compatible chat endpoint on any other status, timeout or
\* connection error; a failed probe is not raised to the caller.
C4_DialectSelection ==
    \A r \in Reqs :
        /\ \A i \in DOMAIN calls[r] : (calls[r][i].ep = TagsEP) <=> (i = 1)
        /\ pc[r] = "done" /\ PassedAuth(r) =>
              LET probe == calls[r][1].answer
                  native == ~probe.err /\ probe.status = 200
              IN  /\ Len(Forwarded(r)) >= 1
                  /\ \A i \in DOMAIN Forwarded(r) :
                        Forwarded(r)[i].ep = IF native THEN NativeChatEP ELSE CompatChatEP
        /\ pc[r] \in { "post", "return_stream" } => exc[r] = "none" /\ resp[r].kind = "none"

\* "data: <line>\n\n" for each non-empty line of ls, in order.
FramesOf(ls) ==
    LET kept == SelectSeq(ls, LAMBDA l : l # "")
    IN  [i \in 1..Len(kept) |-> "data: " \o kept[i] \o "\n\n"]

\* r is on the Native streaming path and its backend stream was opened.
NativeStreaming(r) == is_ollama[r] /\ stream[r] /\ upstream[r] # "none"

\* C5: Native streaming framing.  While the backend emits lines the frames
\* written are exactly one `data: <line>` frame per non-empty line, in the
\* backend's order, the line unmodified, none for a blank line; when the
\* backend stream ends normally exactly one `data: [DONE]` frame follows
\* and is the last frame.
C5_NativeFraming ==
    \A r \in Reqs :
        NativeStreaming(r) =>
            /\ pc[r] = "gen_read" => frames[r] = FramesOf(items[r])
            /\ pc[r] = "done" /\ exc[r] = "none" =>
                  frames[r] = FramesOf(items[r]) \o << "data: [DONE]\n\n" >>

\* C5 witness: the backend emitted a line, a blank line and a line and ended;
\* three frames were written.
C5_Witness ==
    \E r \in Reqs :
        /\ NativeStreaming(r) /\ pc[r] = "done" /\ exc[r] = "none"
        /\ items[r] = << "{\"message\":{\"content\":\"hi\"}}", "", "{\"done\":true}" >>
        /\ Len(frames[r]) = 3

\* r is on the Native unary path and its forwarded call has been made.
NativeUnaryDone(r) == is_ollama[r] /\ ~stream[r] /\ pc[r] = "done"

\* The backend's answer to the forwarded call of r.
ChatAnswer(r) == calls[r][Len(calls[r])].answer

\* C6: on the Native dialect with stream=false the response returned by the
\* handler has exactly one `choices` entry: index 0, message {role
\* "assistant", content = backend message.content or "" when absent},
\* finish_reason = backend done_reason or "stop" when absent; id
\* "chatcmpl-ollama", object "chat.completion", model echoed from the
\* request (the default "llama3.1" when the request names none).  It is
\* returned, with status 200, whenever the backend answers with a success
\* status and a JSON body.
C6_NativeUnaryShape ==
    \A r \in Reqs :
        NativeUnaryDone(r) =>
            LET a == ChatAnswer(r)
                d == a.body[1]
                c == resp[r].content[1]
            IN  /\ ~a.err /\ a.status \in 200..299 /\ a.body # None => resp[r].kind = "json"
                /\ resp[r].kind = "json" =>
                      /\ resp[r].status = 200
                      /\ c.id = "chatcmpl-ollama"
                      /\ c.object = "chat.completion"
                      /\ c.model = (IF body[r].model = None THEN "llama3.1" ELSE body[r].model[1])
                      /\ Len(c.choices) = 1
                      /\ c.choices[1].index = 0
                      /\ c.choices[1].message.role = "assistant"
                      /\ c.choices[1].message.content =
                            (IF d.message = None \/ d.message[1].content = None
                             THEN "" ELSE d.message[1].content[1])
                      /\ c.choices[1].finish_reason =
                            (IF d.done_reason = None THEN "stop" ELSE d.done_reason[1])

\* C6 witness: a Native unary response built from a backend body with content
\* and a done_reason other than the default.
C6_Witness ==
    \E r \in Reqs :
        /\ NativeUnaryDone(r) /\ resp[r].kind = "json"
        /\ body[r].model # None
        /\ ChatAnswer(r).body[1].done_reason = Some("length")
        /\ resp[r].content[1].choices[1].message.content = "hello"

\* C7: Native unary failure.  When the backend answers the forwarded native
\* call with a non-success status and stream=false, the caller receives the
\* backend's status and body, and never a synthesized 200 chat.completion.
C7_NativeUnaryFailure ==
    \A r \in Reqs :
        NativeUnaryDone(r) /\ ~ChatAnswer(r).err /\ ~IsSuccess(ChatAnswer(r).status) =>
            /\ resp[r].status = ChatAnswer(r).status
            /\ resp[r].content = ChatAnswer(r).body
            /\ resp[r].kind # "json"

\* r is on the OpenAI-compatible path and the backend answered its forwarded
\* call (a unary call: with a JSON body).
CompatAnswered(r) ==
    /\ pc[r] = "done" /\ PassedAuth(r) /\ ~is_ollama[r]
    /\ Len(calls[r]) = 2
    /\ ~ChatAnswer(r).err
    /\ stream[r] \/ ChatAnswer(r).body # None

\* C8: OpenAI-compatible error relay.  Whenever the backend answers the
\* forwarded chat call with status s, the caller receives status s (and for
\* a unary call the backend's JSON body unchanged), for stream=false and
\* stream=true alike.
C8_CompatRelay ==
    \A r \in Reqs :
        CompatAnswered(r) =>
            /\ resp[r].status = ChatAnswer(r).status
            /\ ~stream[r] => resp[r].content = ChatAnswer(r).body

\* C9: OpenAI-compatible passthrough.  Every call forwarded on the
\* OpenAI-compatible path, unary or streamed, carries the caller's body
\* with no field added, removed, defaulted or rewritten; in streaming mode
\* the frames relayed are exactly the chunks read from the backend, in
\* order, and nothing is appended.
C9_CompatPassthrough ==
    \A r \in Reqs :
        /\ \A i \in DOMAIN calls[r] :
              calls[r][i].ep = CompatChatEP => calls[r][i].json = Some(body[r])
        /\ ~is_ollama[r] /\ pc[r] \in { "gen_read", "done" } => frames[r] = items[r]

\* C9 witness: a streamed OpenAI-compatible call carried a body with a sampling
\* field and no model, and two backend chunks were relayed.
C9_Witness ==
    \E r \in Reqs :
        /\ ~is_ollama[r] /\ pc[r] = "done" /\ exc[r] = "none"
        /\ body[r].temperature # None /\ body[r].model = None
        /\ Len(calls[r]) = 2 /\ calls[r][2].streamed
        /\ Len(frames[r]) = 2 /\ frames[r][1] # frames[r][2]

\* C10: Native request translation.  The body forwarded on the Native
\* dialect carries the caller's messages unchanged (an empty or absent
\* sequence as the empty sequence, without failure), the caller's model,
\* and a `stream` field equal to the mode of the gateway's own response.
C10_NativeTranslation ==
    \A r \in Reqs :
        \A i \in DOMAIN calls[r] :
            calls[r][i].ep = NativeChatEP =>
                LET j == calls[r][i].json[1]
                IN  /\ calls[r][i].json = payload[r]
                    /\ j.messages = (IF body[r].messages = None THEN << >> ELSE body[r].messages[1])
                    /\ body[r].model # None => j.model = body[r].model[1]
                    /\ j.stream = calls[r][i].streamed
                    /\ resp[r].kind \in { "json", "sse" } => (j.stream <=> resp[r].kind = "sse")

\* C10 witness: a request without `messages` was forwarded on the Native
\* dialect with an empty sequence and answered.
C10_Witness ==
    \E r \in Reqs :
        /\ body[r].messages = None
        /\ Len(calls[r]) = 2 /\ calls[r][2].ep = NativeChatEP
        /\ calls[r][2].json[1].messages = << >>
        /\ resp[r].kind = "json"

\* C11: at most one forwarding attempt per chat request.  In every state
\* the forwarded chat calls of a request (native or OpenAI-compatible,
\* unary or streamed) number at most one: none is reissued after a backend
\* error and none goes to the other dialect's endpoint; once the handler
\* or generator has ended no further call is made.
C11_SingleForward ==
    \A r \in Reqs :
        /\ Len(Forwarded(r)) <= 1
        /\ Len(calls[r]) <= 2
        /\ \A i, j \in DOMAIN Forwarded(r) : Forwarded(r)[i].ep = Forwarded(r)[j].ep

\* C11 witness: the backend failed the one forwarded call (a non-2xx answer)
\* and the request has ended with that single call.
C11_Witness ==
    \E r \in Reqs :
        /\ pc[r] = "done"
        /\ Len(Forwarded(r)) = 1
        /\ ~Forwarded(r)[1].answer.err
        /\ Forwarded(r)[1].answer.status = 500
        /\ exc[r] = "HTTPStatusError"

\* A listing probe succeeded: a 200 answer whose body is a JSON object, and
\* for the OpenAI-compatible probe one whose list holds only objects.
ProbeSucceeded(c) ==
    /\ ~c.answer.err
    /\ c.answer.status = 200
    /\ c.answer.body # None
    /\ c.answer.body[1].object
    /\ c.ep = ModelsEP /\ c.answer.body[1].list # None =>
          \A i \in DOMAIN c.answer.body[1].list[1] : c.answer.body[1].list[1][i].dict

\* C12: GET /health never raises.  For every combination of outcomes of the
\* two probes (200 with a well-formed body, 200 with a malformed body,
\* non-200, timeout or connection error) it returns a JSON object with a
\* boolean `ok`; `ok` is false only when neither probe succeeded; the
\* OpenAI-compatible probe is issued only after the Native probe did not
\* succeed.
C12_HealthNeverRaises ==
    /\ hresp.kind \in { "none", "json" }
    /\ hpc = "done" =>
          /\ hresp.kind = "json" /\ hresp.status = 200
          /\ hresp.content[1].ok \in BOOLEAN
          /\ ~hresp.content[1].ok => \A i \in DOMAIN hcalls : ~ProbeSucceeded(hcalls[i])
          /\ ProbeSucceeded(hcalls[1]) => hresp.content[1].ok /\ hresp.content[1].backend = "ollama"
    /\ \A i \in DOMAIN hcalls :
          /\ (hcalls[i].ep = TagsEP) <=> (i = 1)
          /\ hcalls[i].ep = ModelsEP => i = 2 /\ ~ProbeSucceeded(hcalls[1])

\* C12 witness: the Native probe answered 200 with a body that is no JSON
\* object, the OpenAI-compatible probe failed to connect, and health
\* returned ok = false.
C12_Witness ==
    /\ hpc = "done"
    /\ Len(hcalls) = 2
    /\ hcalls[1].answer = Response(200, Some([object |-> FALSE, list |-> None]))
    /\ hcalls[2].answer.err
    /\ hresp.kind = "json" /\ ~hresp.content[1].ok

\* The streamed Native call of r ended in a backend failure: a non-success
\* status, or a connection failure while reading.
NativeStreamFailed(r) ==
    /\ is_ollama[r] /\ stream[r] /\ pc[r] = "done"
    /\ exc[r] \in { "HTTPStatusError", "ReadError" }

\* C13: Native streaming failure.  If the backend answers the streamed
\* native call with a non-success status, or its connection fails after k
\* lines have been read, the frames written are exactly the frames of the
\* non-empty lines among those k lines (none on a non-success status), the
\* generator has ended, and no `data: [DONE]` frame is written.
C13_NativeStreamFailure ==
    \A r \in Reqs :
        NativeStreamFailed(r) =>
            /\ frames[r] = FramesOf(items[r])
            /\ \A i \in DOMAIN frames[r] : frames[r][i] # "data: [DONE]\n\n"
            /\ exc[r] = "HTTPStatusError" => items[r] = << >> /\ frames[r] = << >>
            /\ upstream[r] = "closed"

\* C13 witness: the connection failed after a line and a blank line were
\* read; one frame had been written.
C13_Witness ==
    \E r \in Reqs :
        /\ NativeStreamFailed(r) /\ exc[r] = "ReadError"
        /\ items[r] = << "{\"message\":{\"content\":\"hi\"}}", "" >>
        /\ Len(frames[r]) = 1

\* The backend answered a streamed call of r with a response head: the
\* backend stream of r has been opened.
StreamOpened(r) ==
    \E i \in DOMAIN calls[r] : calls[r][i].streamed /\ ~calls[r][i].answer.err

\* C15: backend stream release.  Once a streamed backend call has been
\* opened for a request, the backend stream is closed on every exit path of
\* the generator: normal end of the backend stream, backend error (a
\* non-success status, a failed read), caller disconnect.  It is open only
\* while the generator is reading.
C15_StreamRelease ==
    \A r \in Reqs :
        /\ StreamOpened(r) /\ pc[r] = "done" => upstream[r] = "closed"
        /\ upstream[r] = "open" => pc[r] = "gen_read" /\ StreamOpened(r)
        /\ ~StreamOpened(r) => upstream[r] = "none"

\* C15 witness: the caller disconnected after a frame had been relayed and
\* the backend stream is closed.
C15_Witness ==
    \E r \in Reqs :
        /\ StreamOpened(r) /\ pc[r] = "done"
        /\ exc[r] = "CancelledError"
        /\ Len(frames[r]) >= 1
        /\ upstream[r] = "closed"

\* C16: client lifetime in streaming mode.  The streamed backend call is
\* issued only while the request's HTTP client is open, and the handler does
\* not close the client before the generator has opened the backend stream
\* and finished reading it.
C16_ClientOpenWhileStreaming ==
    \A r \in Reqs :
        /\ \A i \in DOMAIN calls[r] :
               calls[r][i].streamed => calls[r][i].client = "open"
        /\ pc[r] \in {"gen_open", "gen_read"} => client[r] = "open"

\* The fields chat reads from the body of r, with the defaults of ChatRequest.
OwnModel(r) == IF body[r].model = None THEN "llama3.1" ELSE body[r].model[1]

OwnMessages(r) == IF body[r].messages = None THEN << >> ELSE body[r].messages[1]

OwnStream(r) == body[r].stream \in { Some("true"), Some("1") }

\* The backend answered the probe of r with 200.
OwnProbeOK(r) ==
    /\ Len(calls[r]) >= 1
    /\ ~calls[r][1].answer.err
    /\ calls[r][1].answer.status = 200

\* The response to a unary request r, from its own body and the backend's
\* answer to its own forwarded call.
OwnUnaryResponse(r) ==
    LET a == ChatAnswer(r)
    IN  IF a.err \/ a.body = None \/ (OwnProbeOK(r) /\ a.status \notin 200..299)
        THEN ServerErrorResponse
        ELSE IF OwnProbeOK(r)
        THEN JSONResponse(200, NativeCompletion(OwnModel(r), a.body[1]))
        ELSE JSONResponse(a.status, a.body[1])

\* C14: per-request isolation.  With several requests in flight, each
\* request's dialect decision, forwarded body and response are those given
\* by its own body and by the backend's answers to its own calls: no
\* request reads or writes state written by another.
C14_Isolation ==
    \A r \in Reqs :
        PassedAuth(r) =>
            /\ model[r] = OwnModel(r)
            /\ messages[r] = OwnMessages(r)
            /\ stream[r] = OwnStream(r)
            /\ pc[r] # "probe" => (is_ollama[r] <=> OwnProbeOK(r))
            /\ \A i \in DOMAIN calls[r] :
                  LET c == calls[r][i]
                  IN  c.ep # TagsEP =>
                        /\ i = 2
                        /\ c.ep = (IF OwnProbeOK(r) THEN NativeChatEP ELSE CompatChatEP)
                        /\ c.json = (IF OwnProbeOK(r)
                                     THEN Some([model |-> OwnModel(r), messages |-> OwnMessages(r),
                                                stream |-> OwnStream(r)])
                                     ELSE Some(body[r]))
            /\ pc[r] = "done" /\ ~OwnStream(r) => resp[r] = OwnUnaryResponse(r)
            /\ pc[r] \in { "gen_open", "gen_read", "done" } /\ OwnStream(r) =>
                  /\ resp[r] = StreamingResponse
                  /\ \/ frames[r] = (IF OwnProbeOK(r) THEN FramesOf(items[r]) ELSE items[r])
                     \/ /\ OwnProbeOK(r) /\ pc[r] = "done" /\ exc[r] = "none"
                        /\ frames[r] = FramesOf(items[r]) \o << "data: [DONE]\n\n" >>

\* C14 witness: two requests with different bodies overlap: one was answered
\* on the Native dialect with the reshaped body, the other is relaying an
\* OpenAI-compatible stream.
C14_Witness ==
    \E r, q \in Reqs :
        /\ r # q /\ body[r] # body[q]
        /\ PassedAuth(r) /\ pc[r] = "done" /\ OwnProbeOK(r)
        /\ resp[r].kind = "json" /\ resp[r].content[1].model = "gpt-oss"
        /\ PassedAuth(q) /\ pc[q] = "gen_read" /\ ~OwnProbeOK(q)
        /\ Len(frames[q]) >= 1

====
